---- MODULE Spec2Model ----
(***************************************************************************)
(* Model of the static site generator of cmd/internal/pkgsite (the DOM     *)
(* based revision: GenerateStaticSite, renderAndWriteN, urlPathToFilePath, *)
(* relativePrefix, processHTML/walkNodes, absoluteToRelativeAsset,         *)
(* copyEmbeddedFS).                                                        *)
(*                                                                         *)
(* Strings are sequences of tokens.  A token is one character ("/", ".",   *)
(* "#", a quote, ...) or an indivisible word ("about", "static", "index"): *)
(* the code only ever looks for "/", "." and the words "static" and        *)
(* "third_party", so a word stands for a run of other characters.          *)
(***************************************************************************)
EXTENDS Integers, Sequences, FiniteSets, TLC

\* ------------------------------------------------------------------ bounds

\* Longest URL path (in tokens) handed to the path functions.
MaxPathLen == 5
\* Most unit paths the enumeration yields in one run.
MaxUnits == 2
\* Most children of head, and of body, in a parsed document handed to the
\* HTML transform on its own.
MaxKids == 2
\* Most pieces an asset's content is composed of.
MaxPieces == 3
\* Deepest directory nesting of an asset's path.
MaxDirs == 3

\* The redirect ceiling of renderAndWriteN (depth > 5 fails).
MaxRedirects == 5

VARIABLES
    \* a pure function applied on its own: the call, and its result
    call, ret, returned,
    \* GenerateStaticSite: where the run is, the enumerated unit paths, the
    \* index of the page being rendered
    pc, paths, idx,
    \* renderAndWriteN: the path of the next request, the redirect depth, the
    \* requests issued for this page, the response recorded for the request
    \* of the step just taken (NoResp when it made none)
    urlPath, depth, requests, recorded,
    \* the output tree: the destinations written so far, and the file write
    \* made by the step just taken (NoWrite when it made none)
    written, write,
    \* the error of the page rendered last, the error the run returned
    pageErr, runErr,
    \* copyEmbeddedFS: the next file of the bundle being walked
    fileIdx,
    \* enumerateUnitPaths: the catalog and the sources, the positions of the
    \* two loops, the seen set, the FetchLazyModule calls made so far, the
    \* returned error
    modules, getters, modIdx, getIdx, seen, queries, enumErr

pureVars == <<call, ret, returned>>
crawlVars == <<pc, paths, idx, urlPath, depth, requests, recorded, written,
               write, pageErr, runErr, fileIdx>>
enumVars == <<modules, getters, modIdx, getIdx, seen, queries, enumErr>>
vars == <<call, ret, returned, pc, paths, idx, urlPath, depth, requests,
          recorded, written, write, pageErr, runErr, fileIdx,
          modules, getters, modIdx, getIdx, seen, queries, enumErr>>

\* ----------------------------------------------------------------- strings

DQ == "\""
SQ == "'"
LP == "("

\* All sequences over S of length 0..n.
SeqsUpTo(S, n) == UNION {[1..k -> S] : k \in 0..n}

\* strings.HasPrefix
HasPrefix(s, pre) ==
    /\ Len(s) >= Len(pre)
    /\ SubSeq(s, 1, Len(pre)) = pre

\* strings.TrimPrefix
TrimPrefix(s, pre) ==
    IF HasPrefix(s, pre) THEN SubSeq(s, Len(pre) + 1, Len(s)) ELSE s

\* strings.Count(s, tok) for a one-token separator.
Count(s, tok) == Cardinality({i \in 1..Len(s) : s[i] = tok})

\* strings.Repeat
RECURSIVE Repeat(_, _)
Repeat(s, n) == IF n <= 0 THEN <<>> ELSE s \o Repeat(s, n - 1)

\* strings.LastIndex(s, tok), 1-based; 0 when absent.
LastIndex(s, tok) ==
    LET I == {i \in 1..Len(s) : s[i] = tok}
    IN  IF I = {} THEN 0 ELSE CHOOSE i \in I : \A j \in I : j <= i

\* The "/"-separated segments of s, empty ones included (strings.Split).
RECURSIVE SplitSlash(_)
SplitSlash(s) ==
    LET I == {i \in 1..Len(s) : s[i] = "/"}
    IN  IF I = {} THEN <<s>>
        ELSE LET i == CHOOSE k \in I : \A j \in I : k <= j
             IN  <<SubSeq(s, 1, i - 1)>> \o SplitSlash(SubSeq(s, i + 1, Len(s)))

\* strings.Join(segs, "/")
RECURSIVE JoinSlash(_)
JoinSlash(segs) ==
    IF segs = <<>> THEN <<>>
    ELSE IF Len(segs) = 1 THEN segs[1]
    ELSE segs[1] \o <<"/">> \o JoinSlash(Tail(segs))

DotDot == <<".", ".">>

\* The element stack of path.Clean: "" and "." elements are dropped, ".."
\* removes the element before it (or is dropped at the root, or kept at the
\* start of a relative path).
RECURSIVE CleanStack(_, _, _)
CleanStack(segs, stack, rooted) ==
    IF segs = <<>> THEN stack
    ELSE LET h == Head(segs)
             t == Tail(segs)
         IN  IF h = <<>> \/ h = <<".">> THEN CleanStack(t, stack, rooted)
             ELSE IF h = DotDot
             THEN IF stack # <<>> /\ stack[Len(stack)] # DotDot
                  THEN CleanStack(t, SubSeq(stack, 1, Len(stack) - 1), rooted)
                  ELSE IF rooted THEN CleanStack(t, stack, rooted)
                  ELSE CleanStack(t, Append(stack, h), rooted)
             ELSE CleanStack(t, Append(stack, h), rooted)

\* path.Clean / filepath.Clean
Clean(s) ==
    LET rooted == s # <<>> /\ s[1] = "/"
        body   == JoinSlash(CleanStack(SplitSlash(s), <<>>, rooted))
        out    == IF rooted THEN <<"/">> \o body ELSE body
    IN  IF out = <<>> THEN <<".">> ELSE out

\* path.Join / filepath.Join: empty elements are ignored, the rest are joined
\* by "/" and cleaned; all empty gives "".
Join(elems) ==
    LET ne == SelectSeq(elems, LAMBDA e : e # <<>>)
    IN  IF ne = <<>> THEN <<>> ELSE Clean(JoinSlash(ne))

\* filepath.Ext: the suffix from the last "." of the last element, "" if none.
Ext(s) ==
    LET from == LastIndex(s, "/") + 1
        D    == {i \in from..Len(s) : s[i] = "."}
    IN  IF D = {} THEN <<>>
        ELSE SubSeq(s, CHOOSE i \in D : \A j \in D : j <= i, Len(s))

\* path.Dir: everything up to the last "/", cleaned.
Dir(s) == Clean(SubSeq(s, 1, LastIndex(s, "/")))

\* filepath.Base for a clean, non-empty path without trailing slash.
Base(s) == SubSeq(s, LastIndex(s, "/") + 1, Len(s))

\* ------------------------------------------------------------ path mapping

IndexHTML == <<"index", ".", "html">>
OutDir == <<"out">>

\* The mutant appends index.html whatever the extension.
urlPathToFilePathNoExt(u, outDir) ==
    LET clean == TrimPrefix(u, <<"/">>)
    IN  IF clean = <<>> THEN Join(<<outDir, IndexHTML>>)
        ELSE Join(<<outDir, clean, IndexHTML>>)

urlPathToFilePath(u, outDir) ==
    LET clean == TrimPrefix(u, <<"/">>)
    IN  IF clean = <<>> THEN Join(<<outDir, IndexHTML>>)
        ELSE IF Ext(clean) # <<>> THEN Join(<<outDir, clean>>)
        ELSE Join(<<outDir, clean, IndexHTML>>)

relativePrefix(u) ==
    LET clean == TrimPrefix(u, <<"/">>)
    IN  IF clean = <<>> THEN <<".", "/">>
        ELSE Repeat(<<".", ".", "/">>, Count(clean, "/") + 1)

\* --------------------------------------------------------- text rewriting

\* strings.ReplaceAll for a non-empty old: non-overlapping matches, left to
\* right.
RECURSIVE ReplaceAll(_, _, _)
ReplaceAll(s, old, new) ==
    IF Len(s) < Len(old) THEN s
    ELSE IF HasPrefix(s, old)
         THEN new \o ReplaceAll(SubSeq(s, Len(old) + 1, Len(s)), old, new)
         ELSE <<Head(s)>> \o ReplaceAll(Tail(s), old, new)

StaticDir == <<"/", "static", "/">>
ThirdPartyDir == <<"/", "third_party", "/">>

\* The mutant matches the directory without the character before it.
ReplaceUnanchored(s, q, dir, prefix) ==
    ReplaceAll(s, dir, prefix \o Tail(dir))

\* One pass of the loop bodies: quote+dir becomes quote+prefix+dir[1:].
ReplaceQuoted(s, q, dir, prefix) ==
    ReplaceAll(s, <<q>> \o dir, <<q>> \o prefix \o Tail(dir))

\* The mutant rewrites /static/ references only.
relativizeScriptTextStaticOnly(script, prefix) ==
    ReplaceQuoted(ReplaceQuoted(script, DQ, StaticDir, prefix), SQ, StaticDir, prefix)

relativizeScriptText(script, prefix) ==
    LET s1 == ReplaceQuoted(script, DQ, StaticDir, prefix)
        s2 == ReplaceQuoted(s1, SQ, StaticDir, prefix)
        s3 == ReplaceQuoted(s2, DQ, ThirdPartyDir, prefix)
    IN  ReplaceQuoted(s3, SQ, ThirdPartyDir, prefix)

\* The mutant counts the file name as a directory level.
assetDepthOffByOne(filePath) ==
    LET dir == Dir(filePath)
    IN  Count(dir, "/") + 1

\* The depth computed at the top of absoluteToRelativeAsset.
assetDepth(filePath) ==
    LET dir == Dir(filePath)
    IN  IF dir # <<".">> THEN Count(dir, "/") + 1 ELSE 0

\* The mutant forgets the unquoted url( form.
assetPassesNoParen(s, dir, prefix) ==
    ReplaceQuoted(ReplaceQuoted(s, DQ, dir, prefix), SQ, dir, prefix)

\* The three ReplaceAll calls of one loop iteration.
assetPasses(s, dir, prefix) ==
    LET s1 == ReplaceQuoted(s, DQ, dir, prefix)
        s2 == ReplaceQuoted(s1, SQ, dir, prefix)
    IN  ReplaceQuoted(s2, LP, dir, prefix)

absoluteToRelativeAsset(content, filePath) ==
    LET prefix == Repeat(<<".", ".", "/">>, assetDepth(filePath))
    IN  assetPasses(assetPasses(content, StaticDir, prefix), ThirdPartyDir, prefix)

\* ------------------------------------------------------- the HTML transform

\* html.Node: Type, Data, Attr and the child list (FirstChild/NextSibling).
Elem(data, attr, children) ==
    [Type |-> "element", Data |-> data, Attr |-> attr, Children |-> children]
TextNode(data) ==
    [Type |-> "text", Data |-> data, Attr |-> <<>>, Children |-> <<>>]
CommentNode(data) ==
    [Type |-> "comment", Data |-> data, Attr |-> <<>>, Children |-> <<>>]
DocNode(children) ==
    [Type |-> "document", Data |-> "", Attr |-> <<>>, Children |-> children]
At(key, val) == [Key |-> key, Val |-> val]

cspContent == <<"default-src 'self'; script-src 'self' 'unsafe-inline'; ...">>

\* The node walkNodes builds for every head element.
CSPMeta ==
    Elem("meta", <<At("http-equiv", <<"Content-Security-Policy">>),
                   At("content", cspContent)>>, <<>>)

\* The mutant leaves out "data".
isURLAttrNoData(attr) == attr \in {"href", "src", "action", "poster"}

isURLAttr(attr) == attr \in {"href", "src", "action", "poster", "data"}

\* The mutant also rewrites protocol-relative values.
rewriteAttrAnySlash(a, prefix) ==
    IF isURLAttr(a.Key) /\ HasPrefix(a.Val, <<"/">>)
    THEN [a EXCEPT !.Val = prefix \o Tail(a.Val)]
    ELSE a

\* The body of the attribute loop of walkNodes.
rewriteAttr(a, prefix) ==
    IF /\ isURLAttr(a.Key)
       /\ HasPrefix(a.Val, <<"/">>)
       /\ ~HasPrefix(a.Val, <<"/", "/">>)
    THEN [a EXCEPT !.Val = prefix \o Tail(a.Val)]
    ELSE a

\* The mutant appends the meta node instead of inserting it first.
injectCSPLast(children) == Append(children, CSPMeta)

\* n.InsertBefore(meta, n.FirstChild)
injectCSP(children) == <<CSPMeta>> \o children

\* The mutant rewrites the text children of every element.
isScriptTextAnyParent(n, c) == c.Type = "text"

\* n.Data == "script", and its child c.Type == html.TextNode
isScriptText(n, c) == n.Data = "script" /\ c.Type = "text"

RECURSIVE walkNodes(_, _)
walkNodes(n, prefix) ==
    LET isElem == n.Type = "element"
        attr   == IF isElem
                  THEN [i \in DOMAIN n.Attr |-> rewriteAttr(n.Attr[i], prefix)]
                  ELSE n.Attr
        kids1  == IF isElem /\ n.Data = "head"
                  THEN injectCSP(n.Children) ELSE n.Children
        kids2  == IF isElem
                  THEN [i \in DOMAIN kids1 |->
                          IF isScriptText(n, kids1[i])
                          THEN [kids1[i] EXCEPT
                                  !.Data = relativizeScriptText(@, prefix)]
                          ELSE kids1[i]]
                  ELSE kids1
    IN  [n EXCEPT !.Attr = attr,
                  !.Children = [i \in DOMAIN kids2 |-> walkNodes(kids2[i], prefix)]]

\* processHTML between html.Parse and html.Render: the parsed tree, walked.
processHTML(doc, u) == walkNodes(doc, relativePrefix(u))

\* ------------------------------------------------------------- the crawl

\* staticPages of GenerateStaticSite.
staticPages == << <<"/", "about">>, <<"/", "license-policy">>, <<"/", "search-help">> >>

\* Unit paths the catalog can yield, in sort.Strings order ("." < letters).
UnitPool == << <<"a">>, <<"a", ".", "v2">>, <<"b">> >>

\* What enumerateUnitPaths returns: sorted, without duplicates.
UnitLists ==
    {SelectSeq(UnitPool, LAMBDA u : u \in S) :
        S \in {T \in SUBSET {UnitPool[i] : i \in DOMAIN UnitPool} :
                  Cardinality(T) <= MaxUnits}}

\* The mutant renders the unit pages before the informational pages.
PagesUnitsFirst(ps) ==
    << <<"/">> >> \o [i \in DOMAIN ps |-> <<"/">> \o ps[i]] \o staticPages

\* The pages of one run, in the order GenerateStaticSite renders them.
Pages(ps) ==
    << <<"/">> >> \o staticPages \o [i \in DOMAIN ps |-> <<"/">> \o ps[i]]

\* Parsed documents the backend answers with: html.Parse always gives
\* html > (head, body) with one head element.
Page(headKids, bodyKids) ==
    DocNode(<<Elem("html", <<>>, <<Elem("head", <<>>, headKids),
                                  Elem("body", <<>>, bodyKids)>>)>>)

TitleEl == Elem("title", <<>>, <<TextNode(<<"T">>)>>)
LinkEl == Elem("link", <<At("rel", <<"stylesheet">>),
                         At("href", <<"/", "static", "/", "x.css">>)>>, <<>>)
AboutLink == Elem("a", <<At("href", <<"/", "about">>)>>, <<TextNode(<<"About">>)>>)

EmptyDoc == Page(<<>>, <<>>)
Docs == { Page(<<TitleEl>>, <<AboutLink>>), Page(<<CSPMeta, LinkEl>>, <<>>) }

\* Location header values the backend redirects to.
Locations == { <<"/">>, <<"/", "a", "/">> }

\* strings.Contains
Contains(s, sub) ==
    \E i \in 0..(Len(s) - Len(sub)) : SubSeq(s, i + 1, i + Len(sub)) = sub

TextHTML == <<"text/html">>
HTMLType == <<"text/html", "; charset=utf-8">>
\* Content-Type values of the backend: HTML with and without parameters,
\* none, a stylesheet, XHTML, and a type that only mentions text/html.
ContentTypes ==
    { HTMLType, TextHTML, <<>>, <<"text/css">>, <<"application/xhtml+xml">>,
      <<"multipart/related; type=", "text/html">> }

Resp(code, loc, ct, body) ==
    [Code |-> code, Location |-> loc, ContentType |-> ct, Body |-> body]

\* The responses of the rendering backend, a black box: status, Location,
\* Content-Type, body.
Responses ==
    {Resp(301, loc, <<>>, EmptyDoc) : loc \in Locations}
    \cup {Resp(302, <<>>, <<>>, EmptyDoc), Resp(307, <<"/">>, <<>>, EmptyDoc),
          Resp(404, <<>>, HTMLType, EmptyDoc)}
    \cup {Resp(200, <<>>, HTMLType, d) : d \in Docs}
    \cup {Resp(200, <<>>, ct, EmptyDoc) : ct \in ContentTypes}

\* The mutant tests for "text/html" only.
IsHTMLNoEmpty(contentType) == Contains(contentType, TextHTML)

\* strings.Contains(contentType, "text/html") || contentType == ""
IsHTML(contentType) == Contains(contentType, TextHTML) \/ contentType = <<>>

\* The embedded bundles, as fs.WalkDir yields them (the root first, then
\* lexical order): path, is-directory, content.
File(path, data) == [Path |-> path, IsDir |-> FALSE, Data |-> data]
DirEntry(path) == [Path |-> path, IsDir |-> TRUE, Data |-> <<>>]
StaticFS ==
    << DirEntry(<<".">>),
       DirEntry(<<"frontend">>),
       File(<<"frontend", "/", "frontend", ".", "css">>,
            <<"url", LP, "/", "static", "/", "x.svg", ")">>),
       File(<<"frontend", "/", "frontend", ".", "js", ".", "map">>,
            <<DQ, "/", "static", "/", "frontend", "/", "frontend.ts", DQ>>),
       DirEntry(<<"shared">>),
       DirEntry(<<"shared", "/", "icon">>),
       File(<<"shared", "/", "icon", "/", "favicon", ".", "ico">>, <<"ico">>),
       File(<<"worker", ".", "js">>,
            <<"importScripts", LP, SQ, "/", "static", "/", "x.js", SQ, ")">>) >>
ThirdPartyFS ==
    << DirEntry(<<".">>),
       DirEntry(<<"dialog-polyfill">>),
       File(<<"dialog-polyfill", "/", "LICENSE">>,
            <<"see", SQ, "/", "third_party", "/", "dialog-polyfill", SQ>>),
       File(<<"dialog-polyfill", "/", "dialog-polyfill", ".", "js">>,
            <<"import", DQ, "/", "third_party", "/", "y.js", DQ>>) >>
FaviconPath == <<"shared", "/", "icon", "/", "favicon", ".", "ico">>

NoWrite == [Kind |-> "none"]

\* What the steps read of the recorder w: status, Location, Content-Type.
Recorded(w) == [Code |-> w.Code, Location |-> w.Location, ContentType |-> w.ContentType]
NoResp == [Code |-> 0, Location |-> <<>>, ContentType |-> <<>>]

CrawlInit ==
    /\ pc = "request"
    /\ paths \in UnitLists
    /\ idx = 1
    /\ urlPath = <<"/">>
    /\ depth = 0
    /\ requests = 0
    /\ recorded = NoResp
    /\ written = {}
    /\ write = NoWrite
    /\ pageErr = "none"
    /\ runErr = "none"
    /\ fileIdx = 1

\* The mutant allows one redirect more.
redirectLimitExceededLate(d) == d > MaxRedirects + 1

\* if depth > 5
redirectLimitExceeded(d) == d > MaxRedirects

\* The mutant follows every 301/302, Location or not.
followsAnyRedirect(w) == w.Code \in {301, 302}

\* w.Code is 301 or 302 and the Location header is not empty.
follows(w) == w.Code \in {301, 302} /\ w.Location # <<>>

\* The mutant drops the error.
ReturnNil(err) ==
    /\ pc' = "returned"
    /\ pageErr' = "none"

\* renderAndWriteN returns err to renderAndWrite's caller.
Return(err) ==
    /\ pc' = "returned"
    /\ pageErr' = err

\* renderAndWriteN, depth > 5.
TooManyRedirects ==
    /\ pc = "request"
    /\ redirectLimitExceeded(depth)
    /\ Return("too many redirects")
    /\ recorded' = NoResp
    /\ write' = NoWrite
    /\ UNCHANGED <<paths, idx, urlPath, depth, requests, written, runErr,
                   fileIdx, pureVars, enumVars>>

\* renderAndWriteN: a 301/302 with a Location; recurse on it.
FollowRedirect ==
    /\ pc = "request"
    /\ ~redirectLimitExceeded(depth)
    /\ \E w \in Responses :
        /\ follows(w)
        /\ urlPath' = w.Location
        /\ recorded' = Recorded(w)
    /\ depth' = depth + 1
    /\ requests' = requests + 1
    /\ write' = NoWrite
    /\ UNCHANGED <<pc, paths, idx, written, pageErr, runErr, fileIdx, pureVars, enumVars>>

\* renderAndWriteN: the response is not followed and is not a 200.
UnexpectedStatus ==
    /\ pc = "request"
    /\ ~redirectLimitExceeded(depth)
    /\ \E w \in Responses :
        /\ ~follows(w)
        /\ w.Code # 200
        /\ recorded' = Recorded(w)
    /\ requests' = requests + 1
    /\ Return("unexpected status")
    /\ write' = NoWrite
    /\ UNCHANGED <<paths, idx, urlPath, depth, written, runErr, fileIdx, pureVars, enumVars>>

\* The mutant maps the path the page was first asked for.
outPathOfOrig(u, orig) == urlPathToFilePath(orig, OutDir)

\* outPath := urlPathToFilePath(urlPath, outDir), urlPath being the argument
\* of the innermost call (orig is the path renderAndWrite was called with).
outPath(u, orig) == urlPathToFilePath(u, OutDir)

\* The record of one os.WriteFile of a page.
PageWrite(w, u, orig) ==
    LET html == IsHTML(w.ContentType)
    IN  [Kind       |-> "page",
         Dest       |-> outPath(u, orig),
         HTML       |-> html,
         Transforms |-> IF html THEN 1 ELSE 0,
         Prefix     |-> IF html THEN relativePrefix(u) ELSE <<>>,
         Body       |-> w.Body,
         Data       |-> IF html THEN processHTML(w.Body, u) ELSE w.Body,
         Overwrote  |-> outPath(u, orig) \in written]

\* renderAndWriteN: a 200; transform an HTML body, map the path, write.
WritePage ==
    /\ pc = "request"
    /\ ~redirectLimitExceeded(depth)
    /\ \E w \in Responses :
        /\ ~follows(w)
        /\ w.Code = 200
        /\ recorded' = Recorded(w)
        /\ write' = PageWrite(w, urlPath, Pages(paths)[idx])
    /\ written' = written \cup {outPath(urlPath, Pages(paths)[idx])}
    /\ requests' = requests + 1
    /\ Return("none")
    /\ UNCHANGED <<paths, idx, urlPath, depth, runErr, fileIdx, pureVars, enumVars>>

\* renderAndWriteN: a 200 with an HTML body, and processHTML returns an
\* error (html.Parse or html.Render failed); nothing is written.
ProcessHTMLFails ==
    /\ pc = "request"
    /\ ~redirectLimitExceeded(depth)
    /\ \E w \in Responses :
        /\ ~follows(w)
        /\ w.Code = 200
        /\ IsHTML(w.ContentType)
        /\ recorded' = Recorded(w)
    /\ requests' = requests + 1
    /\ Return("processing HTML")
    /\ write' = NoWrite
    /\ UNCHANGED <<paths, idx, urlPath, depth, written, runErr, fileIdx, pureVars, enumVars>>

\* renderAndWriteN: a 200, and os.MkdirAll or os.WriteFile fails.
WritePageFails ==
    /\ pc = "request"
    /\ ~redirectLimitExceeded(depth)
    /\ \E w \in Responses :
        /\ ~follows(w)
        /\ w.Code = 200
        /\ recorded' = Recorded(w)
    /\ requests' = requests + 1
    /\ Return("filesystem")
    /\ write' = NoWrite
    /\ UNCHANGED <<paths, idx, urlPath, depth, written, runErr, fileIdx, pureVars, enumVars>>

\* GenerateStaticSite after renderAndWrite: the homepage's error is returned,
\* any other page's error is logged; then the next page, or the bundles.
NextPage ==
    /\ pc = "returned"
    /\ write' = NoWrite
    /\ recorded' = NoResp
    /\ IF idx = 1 /\ pageErr # "none"
       THEN /\ pc' = "failed"
            /\ runErr' = "rendering homepage"
            /\ UNCHANGED <<idx, urlPath, depth, requests>>
       ELSE /\ idx' = idx + 1
            /\ runErr' = runErr
            /\ depth' = 0
            /\ requests' = 0
            /\ IF idx + 1 <= Len(Pages(paths))
               THEN pc' = "request" /\ urlPath' = Pages(paths)[idx + 1]
               ELSE pc' = "static" /\ urlPath' = urlPath
    /\ UNCHANGED <<paths, written, pageErr, fileIdx, pureVars, enumVars>>

\* The bundle being copied, and the directory it is copied to.
Bundle == IF pc = "static" THEN StaticFS ELSE ThirdPartyFS
DestDir == IF pc = "static" THEN Join(<<OutDir, <<"static">>>>)
           ELSE Join(<<OutDir, <<"third_party">>>>)

\* The mutant rewrites stylesheets only.
isRewrittenExtCSSOnly(ext) == ext = <<".", "css">>

\* ext == ".css" || ext == ".js"
isRewrittenExt(ext) == ext = <<".", "css">> \/ ext = <<".", "js">>

\* The mutant hands over the path inside the bundle.
siteRelPathInBundle(destDir, fpath) == fpath

\* siteRelPath := path.Join(filepath.Base(destDir), fpath)
siteRelPath(destDir, fpath) == Join(<<Base(destDir), fpath>>)

\* The record of one os.WriteFile of copyEmbeddedFS.
AssetWrite(f, destDir) ==
    LET ext      == Ext(f.Path)
        rewrite  == isRewrittenExt(ext)
        sitePath == siteRelPath(destDir, f.Path)
        dest     == Join(<<destDir, f.Path>>)
    IN  [Kind      |-> "asset",
         Path      |-> f.Path,
         SitePath  |-> sitePath,
         Dest      |-> dest,
         Rewritten |-> rewrite,
         Body      |-> f.Data,
         Data      |-> IF rewrite THEN absoluteToRelativeAsset(f.Data, sitePath)
                       ELSE f.Data,
         Overwrote |-> dest \in written]

\* copyEmbeddedFS: the walk callback for a directory, os.MkdirAll(dest).
MakeDir ==
    /\ pc \in {"static", "third_party"}
    /\ fileIdx <= Len(Bundle)
    /\ Bundle[fileIdx].IsDir
    /\ fileIdx' = fileIdx + 1
    /\ write' = NoWrite
    /\ UNCHANGED <<pc, paths, idx, urlPath, depth, requests, recorded, written,
                   pageErr, runErr, pureVars, enumVars>>

\* copyEmbeddedFS: the walk callback for one file.
CopyFile ==
    /\ pc \in {"static", "third_party"}
    /\ fileIdx <= Len(Bundle)
    /\ ~Bundle[fileIdx].IsDir
    /\ write' = AssetWrite(Bundle[fileIdx], DestDir)
    /\ written' = written \cup {Join(<<DestDir, Bundle[fileIdx].Path>>)}
    /\ fileIdx' = fileIdx + 1
    /\ UNCHANGED <<pc, paths, idx, urlPath, depth, requests, recorded, pageErr, runErr, pureVars, enumVars>>

\* copyEmbeddedFS: a read, MkdirAll or WriteFile error ends the run.
CopyFileFails ==
    /\ pc \in {"static", "third_party"}
    /\ fileIdx <= Len(Bundle)
    /\ runErr' = IF pc = "static" THEN "copying static assets"
                 ELSE "copying third_party assets"
    /\ pc' = "failed"
    /\ write' = NoWrite
    /\ UNCHANGED <<paths, idx, urlPath, depth, requests, recorded, written, pageErr,
                   fileIdx, pureVars, enumVars>>

\* copyEmbeddedFS returns nil: on to the next bundle, then to the favicon.
BundleDone ==
    /\ pc \in {"static", "third_party"}
    /\ fileIdx > Len(Bundle)
    /\ pc' = IF pc = "static" THEN "third_party" ELSE "favicon"
    /\ fileIdx' = 1
    /\ write' = NoWrite
    /\ UNCHANGED <<paths, idx, urlPath, depth, requests, recorded, written, pageErr,
                   runErr, pureVars, enumVars>>

FaviconDest == Join(<<OutDir, <<"favicon", ".", "ico">>>>)

\* The record of the favicon's os.WriteFile.
FaviconWrite(f) ==
    [Kind      |-> "favicon",
     Path      |-> f.Path,
     Dest      |-> FaviconDest,
     Body      |-> f.Data,
     Data      |-> f.Data,
     Overwrote |-> FaviconDest \in written]

\* The favicon is read from the static bundle and written to the root.
CopyFavicon ==
    /\ pc = "favicon"
    /\ \E i \in DOMAIN StaticFS :
        /\ StaticFS[i].Path = FaviconPath
        /\ write' = FaviconWrite(StaticFS[i])
    /\ written' = written \cup {FaviconDest}
    /\ pc' = "done"
    /\ UNCHANGED <<paths, idx, urlPath, depth, requests, recorded, pageErr, runErr, fileIdx,
                   pureVars, enumVars>>

\* The favicon's write error is discarded (_ = os.WriteFile).
CopyFaviconFails ==
    /\ pc = "favicon"
    /\ pc' = "done"
    /\ write' = NoWrite
    /\ UNCHANGED <<paths, idx, urlPath, depth, requests, recorded, written, pageErr,
                   runErr, fileIdx, pureVars, enumVars>>

PureIdle ==
    /\ call = [Fn |-> "none"]
    /\ ret = <<>>
    /\ returned = FALSE

\* enumerateUnitPaths is not running.
EnumIdle ==
    /\ modules = <<>>
    /\ getters = <<>>
    /\ modIdx = 0
    /\ getIdx = 0
    /\ seen = {}
    /\ queries = <<>>
    /\ enumErr = "none"

Init == CrawlInit /\ PureIdle /\ EnumIdle

Next ==
    \/ TooManyRedirects
    \/ FollowRedirect
    \/ UnexpectedStatus
    \/ WritePage
    \/ ProcessHTMLFails
    \/ WritePageFails
    \/ NextPage
    \/ MakeDir
    \/ CopyFile
    \/ CopyFileFails
    \/ BundleDone
    \/ CopyFavicon
    \/ CopyFaviconFails

Spec == Init /\ [][Next]_vars

\* --------------------------------------------- renderAndWrite on its own

\* renderAndWrite is called for one page of a run, nothing written so far.
RenderInit ==
    /\ pc = "request"
    /\ paths \in UnitLists
    /\ idx \in DOMAIN Pages(paths)
    /\ urlPath = Pages(paths)[idx]
    /\ depth = 0
    /\ requests = 0
    /\ recorded = NoResp
    /\ written = {}
    /\ write = NoWrite
    /\ pageErr = "none"
    /\ runErr = "none"
    /\ fileIdx = 1
    /\ PureIdle
    /\ EnumIdle

\* The steps of renderAndWriteN.
RenderNext ==
    \/ TooManyRedirects
    \/ FollowRedirect
    \/ UnexpectedStatus
    \/ WritePage
    \/ ProcessHTMLFails
    \/ WritePageFails

\* The call is synchronous and every request to the backend returns, so a
\* call that can take a step takes one.
SpecRender == RenderInit /\ [][RenderNext]_vars /\ WF_vars(RenderNext)

\* ------------------------------------------- the pure functions on their own

\* URL paths: "/" followed by up to MaxPathLen - 1 tokens.
URLPaths == {<<"/">> \o s : s \in SeqsUpTo({"/", ".", "a"}, MaxPathLen - 1)}

\* Attribute values: the root, an absolute path, a protocol-relative URL, a
\* fragment, a relative path.
AttrVals == { <<"/">>, <<"/", "about">>, <<"/", "/", "example.com">>,
              <<"#", "x">>, <<"about">> }
AttrKeys == <<"href", "src", "action", "poster", "data", "class", "srcset">>
AllAttrs(v) == [i \in DOMAIN AttrKeys |-> At(AttrKeys[i], v)]

\* A script element with an external source and, as a fallback, text.
ScriptSrcEl ==
    Elem("script", <<At("src", <<"/", "static", "/", "x.js">>)>>,
         <<TextNode(<<"load", LP, SQ, "/", "third_party", "/", "y.js", SQ, ")">>)>>)
InlineScriptEl ==
    Elem("script", <<>>,
         <<TextNode(<<"load", LP, DQ, "/", "static", "/", "x.js", DQ, ")">>)>>)
NestedEl ==
    Elem("div", <<At("class", <<"/", "c">>)>>,
         <<Elem("img", <<At("src", <<"/", "static", "/", "x.png">>)>>, <<>>),
           CommentNode(<<"a href=", DQ, "/", "x", DQ>>),
           TextNode(<<DQ, "/", "static", "/", "y">>)>>)

HeadPool == {TitleEl, LinkEl, CSPMeta}
BodyPool == {Elem("a", AllAttrs(v), <<>>) : v \in AttrVals}
            \cup {NestedEl, InlineScriptEl, ScriptSrcEl}

PureDocs == {Page(hk, bk) : hk \in SeqsUpTo(HeadPool, MaxKids),
                            bk \in SeqsUpTo(BodyPool, MaxKids)}
PagePaths == { <<"/">>, <<"/", "net", "/", "http">> }

\* Asset contents: up to MaxPieces pieces, each a reference or filler.
Pieces == { <<DQ>> \o StaticDir, <<SQ>> \o StaticDir, <<LP>> \o ThirdPartyDir,
            <<DQ>> \o ThirdPartyDir, StaticDir, <<"x">>, <<DQ>> }
RECURSIVE Concat(_)
Concat(ss) == IF ss = <<>> THEN <<>> ELSE Head(ss) \o Concat(Tail(ss))
Contents == {Concat(ps) : ps \in SeqsUpTo(Pieces, MaxPieces)}

\* Asset paths: a file below 0..MaxDirs directories.
AssetPaths ==
    {JoinSlash([i \in 1..d |-> IF i = 1 THEN <<"static">> ELSE <<"d">>]
               \o << <<"f", ".", "css">> >>) : d \in 0..MaxDirs}

\* Prefixes handed to relativizeScriptText: results of relativePrefix.
ScriptPrefixes == {relativePrefix(p) : p \in PagePaths \cup { <<"/", "about">> }}

Calls ==
    [Fn : {"relativePrefix", "urlPathToFilePath"}, URLPath : URLPaths]
    \cup [Fn : {"processHTML"}, Doc : PureDocs, URLPath : PagePaths]
    \cup [Fn : {"absoluteToRelativeAsset"}, Content : Contents, FilePath : AssetPaths]
    \cup [Fn : {"relativizeScriptText"}, Content : Contents, Prefix : ScriptPrefixes]

CrawlIdle ==
    /\ pc = "idle"
    /\ paths = <<>>
    /\ idx = 0
    /\ urlPath = <<>>
    /\ depth = 0
    /\ requests = 0
    /\ recorded = NoResp
    /\ written = {}
    /\ write = NoWrite
    /\ pageErr = "none"
    /\ runErr = "none"
    /\ fileIdx = 0

PureInit ==
    /\ call \in Calls
    /\ ret = <<>>
    /\ returned = FALSE
    /\ CrawlIdle
    /\ EnumIdle

CallRelativePrefix ==
    /\ call.Fn = "relativePrefix"
    /\ ~returned
    /\ ret' = relativePrefix(call.URLPath)
    /\ returned' = TRUE
    /\ UNCHANGED <<call, crawlVars, enumVars>>

CallURLPathToFilePath ==
    /\ call.Fn = "urlPathToFilePath"
    /\ ~returned
    /\ ret' = urlPathToFilePath(call.URLPath, OutDir)
    /\ returned' = TRUE
    /\ UNCHANGED <<call, crawlVars, enumVars>>

CallProcessHTML ==
    /\ call.Fn = "processHTML"
    /\ ~returned
    /\ ret' = processHTML(call.Doc, call.URLPath)
    /\ returned' = TRUE
    /\ UNCHANGED <<call, crawlVars, enumVars>>

CallAbsoluteToRelativeAsset ==
    /\ call.Fn = "absoluteToRelativeAsset"
    /\ ~returned
    /\ ret' = absoluteToRelativeAsset(call.Content, call.FilePath)
    /\ returned' = TRUE
    /\ UNCHANGED <<call, crawlVars, enumVars>>

CallRelativizeScriptText ==
    /\ call.Fn = "relativizeScriptText"
    /\ ~returned
    /\ ret' = relativizeScriptText(call.Content, call.Prefix)
    /\ returned' = TRUE
    /\ UNCHANGED <<call, crawlVars, enumVars>>

PureNext ==
    \/ CallRelativePrefix
    \/ CallURLPathToFilePath
    \/ CallProcessHTML
    \/ CallAbsoluteToRelativeAsset
    \/ CallRelativizeScriptText

SpecPure == PureInit /\ [][PureNext]_vars

\* ------------------------------------------- enumerateUnitPaths on its own

\* Most catalog entries, and most sources, of one enumeration.
MaxModules == 2
MaxGetters == 2

ModulePool == <<"m1", "m2", "m3", "m4">>
GetterPool == <<"g1", "g2", "g3", "g4">>

\* The first byte of a token, for the byte order of sort.Strings.
ByteRank(tok) ==
    CASE tok = "." -> 46
      [] tok = "/" -> 47
      [] tok = "a" -> 97
      [] tok = "b" -> 98
      [] OTHER     -> 118

\* a < b for Go strings: the first differing byte decides, a proper prefix
\* is smaller.
RECURSIVE StrLess(_, _)
StrLess(a, b) ==
    IF b = <<>> THEN FALSE
    ELSE IF a = <<>> THEN TRUE
    ELSE IF Head(a) = Head(b) THEN StrLess(Tail(a), Tail(b))
    ELSE ByteRank(Head(a)) < ByteRank(Head(b))

\* One insertion of the sort.
RECURSIVE Insert(_, _)
Insert(x, sorted) ==
    IF sorted = <<>> THEN <<x>>
    ELSE IF StrLess(Head(sorted), x) THEN <<Head(sorted)>> \o Insert(x, Tail(sorted))
    ELSE <<x>> \o sorted

\* The mutant returns the paths in the order they were found.
SortStringsNone(ss) == ss

\* sort.Strings
RECURSIVE SortStrings(_)
SortStrings(ss) ==
    IF ss = <<>> THEN <<>> ELSE Insert(Head(ss), SortStrings(Tail(ss)))

\* lm.UnitMetas of a module a source has: unit paths in the source's order,
\* which need not be sorted nor free of repetitions.
UnitMetas ==
    { <<>>, << UnitPool[3] >>, << UnitPool[3], UnitPool[1] >>,
      << UnitPool[1], UnitPool[2] >>, << UnitPool[2], UnitPool[1], UnitPool[1] >> }

\* The result of one fetch.FetchLazyModule call.
Fetched(mod, g, err, ums) == [Mod |-> mod, Getter |-> g, Error |-> err, UnitMetas |-> ums]

\* The inner loop over lm.UnitMetas: append the paths not seen before.
RECURSIVE appendUnseen(_, _, _)
appendUnseen(ps, sn, ums) ==
    IF ums = <<>> THEN ps
    ELSE IF Head(ums) \in sn THEN appendUnseen(ps, sn, Tail(ums))
    ELSE appendUnseen(Append(ps, Head(ums)), sn \cup {Head(ums)}, Tail(ums))

\* The mutant goes on to the next source after an answer.
afterAnswerNoBreak(g, n) == g + 1

\* break: the position of the inner loop once a source has answered.
afterAnswer(g, n) == n + 1

\* The mutant gives up the enumeration at the first error.
afterErrorAbort(m, g, nm, ng) == <<nm + 1, 1>>

\* continue: the loop positions after a source's error.
afterError(m, g, nm, ng) == <<m, g + 1>>

EnumInit ==
    /\ pc = "enumerate"
    /\ \E k \in 0..MaxModules : modules = SubSeq(ModulePool, 1, k)
    /\ \E k \in 0..MaxGetters : getters = SubSeq(GetterPool, 1, k)
    /\ modIdx = 1
    /\ getIdx = 1
    /\ seen = {}
    /\ queries = <<>>
    /\ enumErr = "none"
    /\ paths = <<>>
    /\ idx = 0
    /\ urlPath = <<>>
    /\ depth = 0
    /\ requests = 0
    /\ recorded = NoResp
    /\ written = {}
    /\ write = NoWrite
    /\ pageErr = "none"
    /\ runErr = "none"
    /\ fileIdx = 0
    /\ PureIdle

\* FetchLazyModule returns an error: continue with the next getter.
FetchFails ==
    /\ pc = "enumerate"
    /\ modIdx <= Len(modules)
    /\ getIdx <= Len(getters)
    /\ queries' = Append(queries, Fetched(modules[modIdx], getters[getIdx], TRUE, <<>>))
    /\ modIdx' = afterError(modIdx, getIdx, Len(modules), Len(getters))[1]
    /\ getIdx' = afterError(modIdx, getIdx, Len(modules), Len(getters))[2]
    /\ UNCHANGED <<pc, paths, seen, modules, getters, enumErr,
                   idx, urlPath, depth, requests, recorded, written, write, pageErr,
                   runErr, fileIdx, pureVars>>

\* FetchLazyModule answers: collect the unseen unit paths, then break.
FetchAnswers ==
    /\ pc = "enumerate"
    /\ modIdx <= Len(modules)
    /\ getIdx <= Len(getters)
    /\ \E ums \in UnitMetas :
        /\ queries' = Append(queries, Fetched(modules[modIdx], getters[getIdx], FALSE, ums))
        /\ paths' = appendUnseen(paths, seen, ums)
        /\ seen' = seen \cup {ums[i] : i \in DOMAIN ums}
    /\ getIdx' = afterAnswer(getIdx, Len(getters))
    /\ UNCHANGED <<pc, modIdx, modules, getters, enumErr,
                   idx, urlPath, depth, requests, recorded, written, write, pageErr,
                   runErr, fileIdx, pureVars>>

\* The inner loop is over (break, or no getter left): the next module.
NextModule ==
    /\ pc = "enumerate"
    /\ modIdx <= Len(modules)
    /\ getIdx > Len(getters)
    /\ modIdx' = modIdx + 1
    /\ getIdx' = 1
    /\ UNCHANGED <<pc, paths, seen, queries, modules, getters, enumErr,
                   idx, urlPath, depth, requests, recorded, written, write, pageErr,
                   runErr, fileIdx, pureVars>>

\* The outer loop is over: sort.Strings(paths); return paths, nil.
EnumReturn ==
    /\ pc = "enumerate"
    /\ modIdx > Len(modules)
    /\ paths' = SortStrings(paths)
    /\ enumErr' = "nil"
    /\ pc' = "enumerated"
    /\ UNCHANGED <<modIdx, getIdx, seen, queries, modules, getters,
                   idx, urlPath, depth, requests, recorded, written, write, pageErr,
                   runErr, fileIdx, pureVars>>

EnumNext ==
    \/ FetchFails
    \/ FetchAnswers
    \/ NextModule
    \/ EnumReturn

SpecEnum == EnumInit /\ [][EnumNext]_vars

\* ------------------------------------------------------------------ claims

\* The page renderAndWrite was called with, while pc is "request"/"returned".
OrigPath == Pages(paths)[idx]

\* C1: a redirect chain of more than 5 hops returns the too-many-redirects
\* error and writes nothing; up to 5 hops that error is never returned, and
\* a page that returns no error (the last response was a 200) was written.
C1_RedirectCeiling ==
    /\ (pc = "returned" /\ depth > 5) =>
          /\ pageErr = "too many redirects"
          /\ write = NoWrite
          /\ requests = 6
    /\ (pc = "returned" /\ pageErr = "too many redirects") => depth > 5
    /\ (pc = "returned" /\ depth <= 5 /\ pageErr = "none") =>
          /\ write.Kind = "page"
          /\ write.Dest \in written

\* A chain of exactly 5 hops whose last response is a 200 has been written.
C1_Witness ==
    /\ pc = "returned"
    /\ depth = 5
    /\ requests = 6
    /\ pageErr = "none"
    /\ write.Kind = "page"

\* C2: the content of a redirected page is written at the destination of the
\* path first asked for.
C2_WrittenUnderOriginalPath ==
    (pc = "returned" /\ write.Kind = "page") =>
        write.Dest = urlPathToFilePath(OrigPath, OutDir)

\* Depth(p): the number of non-empty "/"-separated segments.
SegmentCount(p) == Len(SelectSeq(SplitSlash(p), LAMBDA g : g # <<>>))

\* C3: relativePrefix(p) is "./" for a path without segments and otherwise
\* one "../" per non-empty segment.
C3_PrefixBySegmentCount ==
    (call.Fn = "relativePrefix" /\ returned) =>
        ret = IF SegmentCount(call.URLPath) = 0 THEN <<".", "/">>
              ELSE Repeat(<<".", ".", "/">>, SegmentCount(call.URLPath))

\* The destination the mapping rule names for the path p, by concatenation.
LastSegmentHasExt(rem) ==
    LET segs == SplitSlash(rem)
    IN  \E i \in DOMAIN segs[Len(segs)] : segs[Len(segs)][i] = "."
RuleDest(p) ==
    LET rem == Tail(p)
    IN  IF rem = <<>> THEN OutDir \o <<"/">> \o IndexHTML
        ELSE IF LastSegmentHasExt(rem) THEN OutDir \o <<"/">> \o rem
        ELSE OutDir \o <<"/">> \o rem \o <<"/">> \o IndexHTML

\* A path whose segments are all names: none empty, "." or "..".
IsPlainPath(rem) ==
    \A i \in DOMAIN SplitSlash(rem) :
        SplitSlash(rem)[i] \notin {<<>>, <<".">>, DotDot}

\* C4: urlPathToFilePath strips the leading slash; an empty rest maps to
\* out/index.html, a rest whose last segment has an extension to out/rest, any
\* other to out/rest/index.html: token for token when the segments of the
\* rest are all names, and naming the same file (equal once cleaned) when
\* some segment is empty, "." or "..".
C4_MapPathRule ==
    (call.Fn = "urlPathToFilePath" /\ returned) =>
        /\ Clean(ret) = Clean(RuleDest(call.URLPath))
        /\ (Tail(call.URLPath) = <<>> \/ IsPlainPath(Tail(call.URLPath)))
              => ret = RuleDest(call.URLPath)

\* A two-segment path with an extension has been mapped.
C4_Witness ==
    /\ call.Fn = "urlPathToFilePath"
    /\ returned
    /\ call.URLPath = <<"/", "a", "/", "a", ".">>
    /\ ret = <<"out", "/", "a", "/", "a", ".">>

\* The "../" segments of a prefix, and the directories between the output
\* root and a destination below it.
DotDotCount(prefix) == Cardinality({i \in DOMAIN SplitSlash(prefix) : SplitSlash(prefix)[i] = DotDot})
DirsBelowRoot(dest) == Count(dest, "/") - Count(OutDir, "/") - 1

\* C5: every HTML page is written as many directories below the output root
\* as the prefix used to rewrite it has "../" segments.
C5_PrefixMatchesDirectoryDepth ==
    (write.Kind = "page" /\ write.HTML) =>
        DotDotCount(write.Prefix) = DirsBelowRoot(write.Dest)

\* C6: no write of a run targets a destination written before in that run.
C6_NoDestinationWrittenTwice ==
    write.Kind # "none" => ~write.Overwrote

\* The element nodes of a tree in document order, and the tree without the
\* first child of its head elements.
RECURSIVE Elems(_)
RECURSIVE ElemsOfAll(_)
Elems(n) ==
    (IF n.Type = "element" THEN <<n>> ELSE <<>>) \o ElemsOfAll(n.Children)
ElemsOfAll(kids) ==
    IF kids = <<>> THEN <<>> ELSE Elems(Head(kids)) \o ElemsOfAll(Tail(kids))
RECURSIVE StripInjected(_)
StripInjected(n) ==
    LET kids == IF n.Type = "element" /\ n.Data = "head" /\ n.Children # <<>>
                THEN Tail(n.Children) ELSE n.Children
    IN  [n EXCEPT !.Children = [i \in DOMAIN kids |-> StripInjected(kids[i])]]

URLAttrNames == {"href", "src", "action", "poster", "data"}
IsRewriteTarget(v) == v # <<>> /\ v[1] = "/" /\ ~(Len(v) >= 2 /\ v[2] = "/")

\* C7: every href, src, action, poster or data attribute of every element
\* whose value begins with "/" but not "//" comes out as the page's prefix
\* followed by the value without its leading slash ("/" as the prefix).
C7_URLAttributesRelativized ==
    (call.Fn = "processHTML" /\ returned) =>
        LET in     == Elems(call.Doc)
            out    == Elems(StripInjected(ret))
            prefix == relativePrefix(call.URLPath)
        IN  /\ Len(out) = Len(in)
            /\ \A i \in DOMAIN in :
                /\ out[i].Data = in[i].Data
                /\ Len(out[i].Attr) = Len(in[i].Attr)
                /\ \A j \in DOMAIN in[i].Attr :
                     LET a == in[i].Attr[j]
                     IN  (a.Key \in URLAttrNames /\ IsRewriteTarget(a.Val)) =>
                           /\ out[i].Attr[j].Key = a.Key
                           /\ out[i].Attr[j].Val = prefix \o Tail(a.Val)
                           /\ (a.Val = <<"/">> => out[i].Attr[j].Val = prefix)

\* A page at depth 2 with a data="/about" attribute has been transformed.
C7_Witness ==
    /\ call.Fn = "processHTML"
    /\ returned
    /\ call.URLPath = <<"/", "net", "/", "http">>
    /\ \E i \in DOMAIN Elems(ret) : \E j \in DOMAIN Elems(ret)[i].Attr :
          Elems(ret)[i].Attr[j] =
              At("data", <<".", ".", "/", ".", ".", "/", "about">>)

AttrNamePool == {AttrKeys[i] : i \in DOMAIN AttrKeys}
                \cup {"rel", "http-equiv", "content", "id", "style", "value"}

\* C8: every attribute that is no rewrite target (a name outside the five, a
\* value starting "//", a fragment, any value not starting "/") is left as it
\* was, and isURLAttr holds of exactly the five names.
C8_OtherAttributesUntouched ==
    /\ \A k \in AttrNamePool : isURLAttr(k) <=> k \in URLAttrNames
    /\ (call.Fn = "processHTML" /\ returned) =>
        LET in  == Elems(call.Doc)
            out == Elems(StripInjected(ret))
        IN  /\ Len(out) = Len(in)
            /\ \A i \in DOMAIN in :
                /\ Len(out[i].Attr) = Len(in[i].Attr)
                /\ \A j \in DOMAIN in[i].Attr :
                     LET a == in[i].Attr[j]
                     IN  ~(a.Key \in URLAttrNames /\ IsRewriteTarget(a.Val)) =>
                           out[i].Attr[j] = a

\* A protocol-relative href and a class="/c" have come through a transform.
C8_Witness ==
    /\ call.Fn = "processHTML"
    /\ returned
    /\ \E i \in DOMAIN Elems(ret) : \E j \in DOMAIN Elems(ret)[i].Attr :
          Elems(ret)[i].Attr[j] = At("href", <<"/", "/", "example.com">>)
    /\ \E i \in DOMAIN Elems(ret) : \E j \in DOMAIN Elems(ret)[i].Attr :
          Elems(ret)[i].Attr[j] = At("class", <<"/", "c">>)

\* The head element of a parsed document, and the Content-Security-Policy
\* meta nodes of a tree.
HeadOf(doc) == doc.Children[1].Children[1]
IsCSPMeta(n) ==
    /\ n.Type = "element"
    /\ n.Data = "meta"
    /\ \E j \in DOMAIN n.Attr :
          n.Attr[j] = At("http-equiv", <<"Content-Security-Policy">>)
CSPCount(doc) ==
    Cardinality({i \in DOMAIN Elems(doc) : IsCSPMeta(Elems(doc)[i])})

\* C9: a written HTML page has gone through the transform once, whatever
\* the redirects before it; the transform added exactly one policy meta
\* node, and that node is the first child of head, before the children head
\* had.
C9_OneCSPFirstInHead ==
    (write.Kind = "page" /\ write.HTML) =>
        /\ write.Transforms = 1
        /\ CSPCount(write.Data) = CSPCount(write.Body) + 1
        /\ Len(HeadOf(write.Data).Children) = Len(HeadOf(write.Body).Children) + 1
        /\ HeadOf(write.Data).Children[1] = CSPMeta
        /\ \A i \in DOMAIN HeadOf(write.Body).Children :
              HeadOf(write.Data).Children[i + 1].Data = HeadOf(write.Body).Children[i].Data

\* A redirected page whose head already had two children, one of them a
\* policy meta node, has been written.
C9_Witness ==
    /\ pc = "returned"
    /\ depth >= 1
    /\ write.Kind = "page"
    /\ write.HTML
    /\ Len(HeadOf(write.Body).Children) = 2
    /\ CSPCount(write.Data) = 2

\* The claim's result, by one scan from the left: the slash after a quote or
\* an opening parenthesis, before static/ or third_party/, becomes the prefix.
RECURSIVE ScanRewrite(_, _)
ScanRewrite(s, prefix) ==
    IF s = <<>> THEN <<>>
    ELSE IF /\ Head(s) \in {DQ, SQ, LP}
            /\ \/ HasPrefix(Tail(s), StaticDir)
               \/ HasPrefix(Tail(s), ThirdPartyDir)
         THEN <<Head(s)>> \o prefix \o ScanRewrite(Tail(Tail(s)), prefix)
         ELSE <<Head(s)>> \o ScanRewrite(Tail(s), prefix)
HasReference(s) ==
    \E i \in DOMAIN s :
        /\ s[i] \in {DQ, SQ, LP}
        /\ \/ HasPrefix(SubSeq(s, i + 1, Len(s)), StaticDir)
           \/ HasPrefix(SubSeq(s, i + 1, Len(s)), ThirdPartyDir)
\* 0 without a directory part, else the "/" of the directory part plus 1.
DirPartDepth(f) ==
    IF LastIndex(f, "/") = 0 THEN 0
    ELSE Count(SubSeq(f, 1, LastIndex(f, "/") - 1), "/") + 1

\* C10: absoluteToRelativeAsset takes its depth from the directory part of
\* the file path and turns the leading slash of every /static/ and
\* /third_party/ that follows a quote or "(" into depth times "../"; content
\* without such a reference comes back unchanged.
C10_AssetReferencesRelativized ==
    (call.Fn = "absoluteToRelativeAsset" /\ returned) =>
        /\ ret = ScanRewrite(call.Content,
                             Repeat(<<".", ".", "/">>, DirPartDepth(call.FilePath)))
        /\ ~HasReference(call.Content) => ret = call.Content

\* A url(/third_party/ reference in a file three directories deep has been
\* rewritten with three "../".
C10_Witness ==
    /\ call.Fn = "absoluteToRelativeAsset"
    /\ returned
    /\ call.FilePath = <<"static", "/", "d", "/", "d", "/", "f", ".", "css">>
    /\ call.Content = <<LP>> \o ThirdPartyDir
    /\ ret = <<LP, ".", ".", "/", ".", ".", "/", ".", ".", "/", "third_party", "/">>

\* The claim's result for script text, by one scan from the left: the slash
\* after a quote, before static/ or third_party/, becomes the prefix.
RECURSIVE ScanQuoted(_, _)
ScanQuoted(s, prefix) ==
    IF s = <<>> THEN <<>>
    ELSE IF /\ Head(s) \in {DQ, SQ}
            /\ \/ HasPrefix(Tail(s), StaticDir)
               \/ HasPrefix(Tail(s), ThirdPartyDir)
         THEN <<Head(s)>> \o prefix \o ScanQuoted(Tail(Tail(s)), prefix)
         ELSE <<Head(s)>> \o ScanQuoted(Tail(s), prefix)
HasQuotedReference(s) ==
    \E i \in DOMAIN s :
        /\ s[i] \in {DQ, SQ}
        /\ \/ HasPrefix(SubSeq(s, i + 1, Len(s)), StaticDir)
           \/ HasPrefix(SubSeq(s, i + 1, Len(s)), ThirdPartyDir)

\* C11: relativizeScriptText turns the leading slash of every /static/ and
\* /third_party/ that follows a single or double quote into the prefix, leaves
\* no such occurrence behind, and returns text without one unchanged.
C11_ScriptLiteralsRelativized ==
    (call.Fn = "relativizeScriptText" /\ returned) =>
        /\ ret = ScanQuoted(call.Content, call.Prefix)
        /\ ~HasQuotedReference(ret)
        /\ ~HasQuotedReference(call.Content) => ret = call.Content

\* A text with a double-quoted /third_party/ and a single-quoted /static/
\* literal has been rewritten for a page two levels deep.
C11_Witness ==
    /\ call.Fn = "relativizeScriptText"
    /\ returned
    /\ call.Prefix = <<".", ".", "/", ".", ".", "/">>
    /\ call.Content = <<DQ>> \o ThirdPartyDir \o <<SQ>> \o StaticDir
    /\ ret = <<DQ, ".", ".", "/", ".", ".", "/", "third_party", "/",
               SQ, ".", ".", "/", ".", ".", "/", "static", "/">>

\* The FetchLazyModule calls made for one catalog entry, in call order.
QueriesOf(mod) == SelectSeq(queries, LAMBDA q : q.Mod = mod)
\* The unit paths reported by the source used for an entry: the first one
\* that answered without error; none when every source failed.
UsedUnits(mod) ==
    LET ok == SelectSeq(QueriesOf(mod), LAMBDA q : ~q.Error)
    IN  IF ok = <<>> THEN {} ELSE {ok[1].UnitMetas[i] : i \in DOMAIN ok[1].UnitMetas}
CatalogUnits == UNION {UsedUnits(modules[i]) : i \in DOMAIN modules}
PathSet == {paths[i] : i \in DOMAIN paths}

\* C12: the list enumerateUnitPaths returns has no path twice, is in
\* ascending order, and holds exactly the unit paths reported, for each
\* catalog entry, by the source used for that entry.
C12_EnumerationSortedDistinctComplete ==
    pc = "enumerated" =>
        /\ \A i, j \in DOMAIN paths : i < j => paths[i] # paths[j]
        /\ \A i, j \in DOMAIN paths : i < j => StrLess(paths[i], paths[j])
        /\ PathSet = CatalogUnits

\* Two entries reported b, a and a.v2, a, a: the result is a, a.v2, b.
C12_Witness ==
    /\ pc = "enumerated"
    /\ Len(queries) = 2
    /\ queries[1].UnitMetas = << UnitPool[3], UnitPool[1] >>
    /\ queries[2].UnitMetas = << UnitPool[2], UnitPool[1], UnitPool[1] >>
    /\ paths = << UnitPool[1], UnitPool[2], UnitPool[3] >>

\* C17: the sources are asked in order for each entry, every call before the
\* last one for an entry failed (so no source is asked after one answered),
\* and the paths collected are those of the answering calls alone.
C17_FirstAnsweringSourceOnly ==
    /\ \A m \in DOMAIN modules :
          LET Q == QueriesOf(modules[m])
          IN  /\ Len(Q) <= Len(getters)
              /\ \A i \in DOMAIN Q :
                    /\ Q[i].Getter = getters[i]
                    /\ i < Len(Q) => Q[i].Error
    /\ PathSet \subseteq
          UNION {{queries[k].UnitMetas[i] : i \in DOMAIN queries[k].UnitMetas} :
                    k \in {n \in DOMAIN queries : ~queries[n].Error}}
    /\ \A k \in DOMAIN queries :
          (~queries[k].Error /\ (k < Len(queries) \/ pc = "enumerated")) =>
              \A i \in DOMAIN queries[k].UnitMetas :
                  queries[k].UnitMetas[i] \in seen

\* With two sources, the first answered for the first entry and the second
\* for the second entry, and the enumeration has returned.
C17_Witness ==
    /\ pc = "enumerated"
    /\ Len(getters) = 2
    /\ Len(modules) = 2
    /\ Len(QueriesOf(modules[1])) = 1
    /\ ~QueriesOf(modules[1])[1].Error
    /\ Len(QueriesOf(modules[2])) = 2
    /\ ~QueriesOf(modules[2])[2].Error
    /\ paths # <<>>

\* C18: an entry for which every source failed adds no path, the entries
\* after it are still asked for, and the enumeration returns a nil error.
C18_FailedEntrySkipped ==
    pc = "enumerated" =>
        /\ enumErr = "nil"
        /\ \A m \in DOMAIN modules :
              LET Q == QueriesOf(modules[m])
              IN  /\ getters # <<>> => Q # <<>>
                  /\ (\A i \in DOMAIN Q : Q[i].Error) =>
                        /\ Len(Q) = Len(getters)
                        /\ UsedUnits(modules[m]) = {}
        /\ PathSet = CatalogUnits

\* Both sources failed for the first entry; the second entry was still asked
\* for and gave the only path of the result.
C18_Witness ==
    /\ pc = "enumerated"
    /\ enumErr = "nil"
    /\ Len(modules) = 2
    /\ Len(QueriesOf(modules[1])) = 2
    /\ \A i \in 1..2 : QueriesOf(modules[1])[i].Error
    /\ ~QueriesOf(modules[2])[1].Error
    /\ paths = << UnitPool[3] >>

RenderFailures == {"too many redirects", "unexpected status"}

\* C13: a render failure of a page, the homepage included, never makes the
\* run return the homepage error: the run goes on.
C13_RenderFailureAbortsOnlyThatPage ==
    pageErr \in RenderFailures => (pc # "failed" /\ runErr # "rendering homepage")

\* C14: a page whose last response is not a 200 returns the unexpected-status
\* error without a write, a 301/302 without Location and a 307 included; the
\* only responses followed are 301/302 with a Location.
C14_UnexpectedStatusWritesNothing ==
    /\ (pc = "returned" /\ recorded # NoResp /\ recorded.Code # 200) =>
          /\ pageErr = "unexpected status"
          /\ write = NoWrite
    /\ (pc = "returned" /\ pageErr = "unexpected status") =>
          /\ recorded.Code # 200
          /\ recorded.Code \in {301, 302} => recorded.Location = <<>>
    /\ (pc = "request" /\ recorded # NoResp) =>
          /\ recorded.Code \in {301, 302}
          /\ recorded.Location # <<>>
          /\ urlPath = recorded.Location

\* After one followed redirect a 307 that carries a Location has ended the
\* page with the unexpected-status error.
C14_Witness ==
    /\ pc = "returned"
    /\ depth = 1
    /\ recorded.Code = 307
    /\ recorded.Location # <<>>
    /\ pageErr = "unexpected status"
    /\ write = NoWrite

\* C15: once a page's write has failed with a filesystem error the run has
\* stopped with an error.
C15_FilesystemErrorIsFatal ==
    (pageErr = "filesystem" /\ pc # "returned") =>
        (pc = "failed" /\ runErr # "none")

\* C16: a step of renderAndWriteN that ends a page whose 200 response is HTML
\* without writing returns an error; when that error is the transform's, no
\* destination was added and no file was written.
C16_TransformFailureWritesNothing ==
    [][ (pc = "request" /\ pc' = "returned" /\ recorded'.Code = 200) =>
          /\ write' = NoWrite => (pageErr' # "none" /\ written' = written)
          /\ pageErr' = "processing HTML" =>
                /\ write' = NoWrite
                /\ written' = written
                /\ \/ recorded'.ContentType = <<>>
                   \/ \E i \in DOMAIN recorded'.ContentType :
                         recorded'.ContentType[i] = "text/html" ]_vars

\* The transform failed for /about, whose destination does not exist.
C16_Witness ==
    /\ pc = "returned"
    /\ pageErr = "processing HTML"
    /\ urlPath = <<"/", "about">>
    /\ urlPathToFilePath(urlPath, OutDir) \notin written
    /\ write = NoWrite

\* C19: a file of a bundle is rewritten exactly when its name ends in .css
\* or .js; any other file is written with the bytes of the embedded file.
C19_OnlyStylesheetsAndScriptsRewritten ==
    write.Kind = "asset" =>
        LET p       == write.Path
            n       == Len(p)
            isCssJs == n >= 2 /\ p[n - 1] = "." /\ p[n] \in {"css", "js"}
            bundle  == IF pc = "static" THEN <<"static">> ELSE <<"third_party">>
        IN  /\ write.Rewritten <=> isCssJs
            /\ \E i \in DOMAIN Bundle :
                  Bundle[i] = File(p, write.Body)
            /\ write.Dest = OutDir \o <<"/">> \o bundle \o <<"/">> \o p
            /\ isCssJs =>
                  write.Data = absoluteToRelativeAsset(write.Body, bundle \o <<"/">> \o p)
            /\ ~isCssJs => write.Data = write.Body

\* frontend.js.map, whose content holds a quoted /static/ reference, has
\* been copied as it is.
C19_Witness ==
    /\ write.Kind = "asset"
    /\ write.Path = <<"frontend", "/", "frontend", ".", "js", ".", "map">>
    /\ HasQuotedReference(write.Body)
    /\ write.Data = write.Body

\* C20: a written 200 response went through the HTML transform exactly when
\* its Content-Type contains text/html or is empty; any other is written as
\* the backend sent it.
C20_TransformByContentType ==
    (pc = "returned" /\ write.Kind = "page") =>
        LET ct   == recorded.ContentType
            html == ct = <<>> \/ \E i \in DOMAIN ct : ct[i] = "text/html"
        IN  /\ recorded.Code = 200
            /\ write.HTML <=> html
            /\ write.Transforms = (IF html THEN 1 ELSE 0)
            /\ html => write.Data = processHTML(write.Body, urlPath)
            /\ html => CSPCount(write.Data) = CSPCount(write.Body) + 1
            /\ ~html => write.Data = write.Body

\* A response without Content-Type has been transformed and written.
C20_Witness ==
    /\ pc = "returned"
    /\ write.Kind = "page"
    /\ recorded.Code = 200
    /\ recorded.ContentType = <<>>
    /\ write.HTML
    /\ HeadOf(write.Data).Children[1] = CSPMeta

\* C21: rendering a page ends, whatever the backend answers (a redirect
\* cycle included), after at most 6 requests: depth starts at 0 and is the
\* number of requests made while the call runs, a followed redirect adds
\* exactly 1 to it, and past 5 no request is made.
C21_RenderTerminatesWithinSixRequests ==
    /\ (pc = "request" /\ depth = 0 /\ requests = 0)
    /\ [](requests <= 6 /\ depth <= 6)
    /\ [](pc = "request" => requests = depth)
    /\ [][(pc = "request" /\ pc' = "request") =>
             (depth' = depth + 1 /\ requests' = requests + 1)]_vars
    /\ [][(pc = "request" /\ depth > 5) =>
             (requests' = requests /\ pc' = "returned")]_vars
    /\ (pc = "request" ~> pc = "returned")

\* The homepage redirected to itself six times and the call has returned
\* after six requests.
C21_Witness ==
    /\ pc = "returned"
    /\ idx = 1
    /\ urlPath = <<"/">>
    /\ depth = 6
    /\ requests = 6
    /\ pageErr = "too many redirects"

HasSrc(n) == \E j \in DOMAIN n.Attr : n.Attr[j].Key = "src"

\* C22: the text children of a script element that has a src attribute
\* come out of the transform as they went in.
C22_ExternalScriptTextUntouched ==
    (call.Fn = "processHTML" /\ returned) =>
        LET in  == Elems(call.Doc)
            out == Elems(StripInjected(ret))
        IN  \A i \in DOMAIN in :
              (in[i].Data = "script" /\ HasSrc(in[i])) =>
                  out[i].Children = in[i].Children

\* The node b is the node a but for the values of URL attributes and the
\* text under a script element, all the way down.
RECURSIVE FrameKept(_, _, _)
FrameKept(a, b, underScript) ==
    /\ b.Type = a.Type
    /\ a.Type = "comment" => b = a
    /\ (a.Type = "text" /\ ~underScript) => b = a
    /\ a.Type \in {"element", "document"} => b.Data = a.Data
    /\ Len(b.Attr) = Len(a.Attr)
    /\ \A j \in DOMAIN a.Attr :
          /\ b.Attr[j].Key = a.Attr[j].Key
          /\ a.Attr[j].Key \notin URLAttrNames => b.Attr[j] = a.Attr[j]
    /\ Len(b.Children) = Len(a.Children)
    /\ \A i \in DOMAIN a.Children :
          FrameKept(a.Children[i], b.Children[i],
                    a.Type = "element" /\ a.Data = "script")

\* C23: the walk leaves every comment node and every text node outside a
\* script element as it was, whatever its content; the result differs from
\* the input only by URL attribute values, by text under script elements and
\* by the one meta node put first in head.
C23_CommentsAndTextUntouched ==
    (call.Fn = "processHTML" /\ returned) =>
        /\ HeadOf(ret).Children[1] = CSPMeta
        /\ CSPCount(ret) = CSPCount(call.Doc) + 1
        /\ FrameKept(call.Doc, StripInjected(ret), FALSE)

\* The div with a comment holding href="/x" and a text holding "/static/y
\* has been transformed for a page two levels deep: both are as they were,
\* while the src of the img next to them was rewritten.
C23_Witness ==
    /\ call.Fn = "processHTML"
    /\ returned
    /\ call.URLPath = <<"/", "net", "/", "http">>
    /\ \E i \in DOMAIN Elems(ret) :
          /\ Elems(ret)[i].Data = "div"
          /\ Elems(ret)[i].Children[2] = CommentNode(<<"a href=", DQ, "/", "x", DQ>>)
          /\ Elems(ret)[i].Children[3] = TextNode(<<DQ, "/", "static", "/", "y">>)
          /\ Elems(ret)[i].Children[1].Attr[1].Val =
                <<".", ".", "/", ".", ".", "/", "static", "/", "x.png">>

\* The page the claim's order puts at position i of a run.
PageInOrder(i) ==
    CASE i = 1 -> <<"/">>
      [] i = 2 -> <<"/", "about">>
      [] i = 3 -> <<"/", "license-policy">>
      [] i = 4 -> <<"/", "search-help">>
      [] OTHER -> <<"/">> \o paths[i - 4]
PageCount == 4 + Len(paths)
\* The moves of the run from one phase to the next.
PhaseOrder ==
    { <<"request", "returned">>, <<"returned", "request">>,
      <<"returned", "static">>, <<"returned", "failed">>,
      <<"static", "third_party">>, <<"static", "failed">>,
      <<"third_party", "favicon">>, <<"third_party", "failed">>,
      <<"favicon", "done">> }

\* C24: the run renders the homepage, /about, /license-policy, /search-help
\* and the unit paths in ascending order, one page at a time: the first
\* request of page i is for the page at position i, requests are made for
\* the current page only, and the next page starts only after the current
\* call has returned. Assets are copied after the last page, static before
\* third_party before the favicon.
C24_FixedSequentialOrder ==
    /\ [](\A i, j \in DOMAIN paths : i < j => StrLess(paths[i], paths[j]))
    /\ []((pc = "request" /\ requests = 0) =>
             (idx <= PageCount /\ depth = 0 /\ urlPath = PageInOrder(idx)))
    /\ [](write.Kind = "page" => (pc = "returned" /\ idx <= PageCount))
    /\ [](write.Kind = "asset" =>
             /\ pc \in {"static", "third_party"}
             /\ idx = PageCount + 1
             /\ HasPrefix(write.Dest, OutDir \o <<"/", pc, "/">>))
    /\ [](write.Kind = "favicon" => (pc = "done" /\ idx = PageCount + 1))
    /\ [](pc \in {"static", "third_party", "favicon", "done"} => idx = PageCount + 1)
    /\ [][pc' # pc => <<pc, pc'>> \in PhaseOrder]_vars
    /\ [][idx' # idx => (pc = "returned" /\ idx' = idx + 1)]_vars
    /\ [][requests' # requests =>
             \/ pc = "request" /\ requests' = requests + 1 /\ idx' = idx
             \/ pc = "returned" /\ requests' = 0]_vars
    /\ [][(pc = "returned" /\ pc' = "static") => idx = PageCount]_vars

\* A run over the units a and b has ended: every page, both bundles and the
\* favicon were written.
C24_Witness ==
    /\ pc = "done"
    /\ paths = << UnitPool[1], UnitPool[3] >>
    /\ idx = 7
    /\ write.Kind = "favicon"
    /\ {urlPathToFilePath(<<"/", "b">>, OutDir),
        urlPathToFilePath(<<"/", "search-help">>, OutDir),
        Join(<<OutDir, <<"third_party">>, <<"dialog-polyfill", "/", "LICENSE">>>>)}
          \subseteq written

\* C25: a written HTML page was rewritten with the prefix of the path its
\* destination was computed from, and that path is the one of the last
\* request: the page first asked for without redirects, the last Location
\* followed after a chain.
C25_PrefixAndDestinationFromSamePath ==
    (pc = "returned" /\ write.Kind = "page" /\ write.HTML) =>
        /\ write.Prefix = relativePrefix(urlPath)
        /\ write.Dest = urlPathToFilePath(urlPath, OutDir)
        /\ write.Data = walkNodes(write.Body, relativePrefix(urlPath))
        /\ depth = 0 => urlPath = OrigPath
        /\ depth > 0 => urlPath \in Locations

\* /about was redirected to /a/ and written there as an HTML page.
C25_Witness ==
    /\ pc = "returned"
    /\ OrigPath = <<"/", "about">>
    /\ depth = 1
    /\ urlPath = <<"/", "a", "/">>
    /\ write.Kind = "page"
    /\ write.HTML
    /\ write.Dest = <<"out", "/", "a", "/", "index", ".", "html">>

\* Where a reference written in the file at dest leads.
ResolveFrom(dest, ref) == Clean(Dir(dest) \o <<"/">> \o ref)

\* C26: a .css or .js file copied to out/<top>/<fpath> is rewritten for the
\* path <top>/<fpath>: every reference gets as many "../" as there are
\* directories between the output root and the file, at least one, and a
\* rewritten /static/x leads to out/static/x.
C26_AssetPrefixMatchesBundleDepth ==
    (write.Kind = "asset" /\ write.Rewritten) =>
        LET n      == DirsBelowRoot(write.Dest)
            prefix == Repeat(<<".", ".", "/">>, n)
        IN  /\ write.SitePath = <<pc, "/">> \o write.Path
            /\ write.Dest = OutDir \o <<"/">> \o write.SitePath
            /\ n >= 1
            /\ write.Data = ScanRewrite(write.Body, prefix)
            /\ ResolveFrom(write.Dest, prefix \o <<"static", "/", "x">>)
                  = OutDir \o <<"/", "static", "/", "x">>

\* worker.js, at the root of the static bundle, has been copied: its
\* reference got one "../".
C26_Witness ==
    /\ write.Kind = "asset"
    /\ write.Dest = <<"out", "/", "static", "/", "worker", ".", "js">>
    /\ write.Data = <<"importScripts", LP, SQ, ".", ".", "/", "static", "/",
                      "x.js", SQ, ")">>

\* No pass of the loops finds anything to replace in s.
NoPassMatches(s, openers, prefix) ==
    \A q \in openers : \A dir \in {StaticDir, ThirdPartyDir} :
        ReplaceAll(s, <<q>> \o dir, <<q>> \o prefix \o Tail(dir)) = s

\* C27: rewriting a result again changes nothing, for the asset rewrite and
\* for the script rewrite with a prefix of relativePrefix, and in a result
\* no pass (double quote, single quote, parenthesis; /static/,
\* /third_party/) finds a match any more.
C27_RewritesIdempotent ==
    /\ (call.Fn = "absoluteToRelativeAsset" /\ returned) =>
          /\ absoluteToRelativeAsset(ret, call.FilePath) = ret
          /\ ~HasReference(ret)
          /\ NoPassMatches(ret, {DQ, SQ, LP},
                           Repeat(<<".", ".", "/">>, DirPartDepth(call.FilePath)))
    /\ (call.Fn = "relativizeScriptText" /\ returned) =>
          /\ relativizeScriptText(ret, call.Prefix) = ret
          /\ ~HasQuotedReference(ret)
          /\ NoPassMatches(ret, {DQ, SQ}, call.Prefix)

\* A content with a double-quoted /static/ and a url(/third_party/ reference
\* has been rewritten for a file two directories deep.
C27_Witness ==
    /\ call.Fn = "absoluteToRelativeAsset"
    /\ returned
    /\ call.FilePath = <<"static", "/", "d", "/", "f", ".", "css">>
    /\ call.Content = <<DQ>> \o StaticDir \o <<LP>> \o ThirdPartyDir
    /\ ret = <<DQ, ".", ".", "/", ".", ".", "/", "static", "/",
               LP, ".", ".", "/", ".", ".", "/", "third_party", "/">>

====
